---- MODULE Spec2Model ----
(***************************************************************************)
(* A model of the fluids observer protocol (src/src/index.ts): the hidden  *)
(* slots $get and $observers on target objects, the observer registry      *)
(* (addFluidObserver / removeFluidObserver with their lifecycle hooks) and *)
(* the dispatcher (callFluidObserver / callFluidObservers), including what *)
(* observers do re-entrantly while a broadcast is running.                 *)
(***************************************************************************)
EXTENDS Integers, Sequences, FiniteSets, TLC

\* ---------------------------------------------------------------- bounds

\* Observers are 1..NumObservers, compared by identity.
NumObservers == 2

\* How many add/remove calls the observers of one broadcast make re-entrantly.
MaxReentrant == 2

\* ------------------------------------------------------------ the universe

\* Target objects.  "hooked" defines both lifecycle hooks (as a FluidValue
\* subclass may), "plain" defines none.  Neither is fluid until
\* setFluidGetter is called on it.
Targets == {"hooked", "plain"}

Observers == 1..NumObservers

\* Getter functions that can be installed in the $get slot.
Getters == {"g1"}

\* A second getter, to replace the first, and the get method of an instance.
NewerGetters == Getters \cup {"g2"}
GetMethod == "get"

\* The values the getters can find when they are called.
StoreValues == {"a", "b"}

\* FluidConfig objects handed to setFluidConfig.
Configs == {"c1", "c2"}

\* Events handed to a broadcast.
Events == {"e1", "e2"}

\* The JavaScript values undefined and null.
Undefined == "undefined"
Null == "null"

\* Values that are not targets: primitives and a frozen object without slots.
Primitives == {"0", "42"}
FrozenObject == "frozen"
Values == Targets \cup {Null, Undefined, FrozenObject} \cup Primitives

\* Set objects on the heap: one per target, and one more for a Set that a
\* running forEach still holds after its target's slot was reset.
SetIds == {"set1", "set2", "set3"}

NoHook == [name |-> "none"]

VARIABLES
    getSlot,        \* target[$get]: Undefined or a getter
    observersSlot,  \* target[$observers]: Undefined, Null or a Set object
    heap,           \* the entries of every Set object, in insertion order
    frame,          \* the running callFluidObservers call, if any
    last,           \* the step that ran last, with the hook call it made
    subscribed,     \* history: per target, the observers added and not removed since
    hookNet,        \* history: per target, observerAdded calls minus observerRemoved calls
    store,          \* the value the getters read when they are called
    configSlot      \* target[$config]: Undefined or a config (the FluidConfig revision)

vars == <<getSlot, observersSlot, heap, frame, last, subscribed, hookNet,
          store, configSlot>>

\* JavaScript truthiness.
Truthy(v) == v \notin {Undefined, Null, "0", "false"}

\* target.observerAdded / target.observerRemoved: the optional hooks.
observerAdded(t) == t = "hooked"
observerRemoved(t) == t = "hooked"

\* observer.eventObserved: observers with an even number are objects that
\* expose the method, the others are plain functions.
eventObserved(o) == o % 2 = 0

\* ------------------------------------------------------------ Set objects

Range(s) == {s[i] : i \in 1..Len(s)}

\* observers.has(observer)
Has(s, o) == o \in Range(s)

IndexOf(s, o) == CHOOSE i \in 1..Len(s) : s[i] = o

\* Mutant: the new entry is put before the existing ones.
SetAddFirst(s, o) == IF Has(s, o) THEN s ELSE <<o>> \o s

\* observers.add(observer): appended after the existing entries.
SetAdd(s, o) == IF Has(s, o) THEN s ELSE Append(s, o)

\* Mutant: the oldest entry is deleted, whichever is asked for.
SetDeleteOldest(s, o) == Tail(s)

\* observers.delete(observer)
SetDelete(s, o) ==
    IF Has(s, o)
    THEN [i \in 1..(Len(s) - 1) |-> IF i < IndexOf(s, o) THEN s[i] ELSE s[i + 1]]
    ELSE s

IdleFrame ==
    [pc |-> "idle", target |-> "none", event |-> "none", set |-> Null, pos |-> 0,
     current |-> 0, log |-> <<>>, nre |-> 0, selfOnly |-> TRUE]

\* A forEach that is running over Set object `id` keeps its place when an
\* entry it has already passed is deleted.
CursorAfterDelete(f, id, s, o) ==
    IF f.pc # "idle" /\ f.set = id /\ Has(s, o) /\ IndexOf(s, o) < f.pos
    THEN [f EXCEPT !.pos = f.pos - 1]
    ELSE f

\* Object identities are opaque, so the heap is kept in a normal form: the
\* Set object in a target's slot is named after the target, and a Set object
\* that only the running forEach still holds is the spare one.
SetOf(t) == IF t = "hooked" THEN "set1" ELSE "set2"
Spare == "set3"

\* new Set(), made for a target's slot.
NewSet(target) == SetOf(target)

\* A Set object that its target's slot lets go of lives on while the running
\* forEach holds it, and is collected otherwise.
ReleasedHeap(h, f, id) ==
    IF f.pc # "idle" /\ f.set = id
    THEN [h EXCEPT ![Spare] = h[id], ![id] = <<>>]
    ELSE [h EXCEPT ![id] = <<>>]

ReleasedFrame(f, id) ==
    IF f.pc # "idle" /\ f.set = id THEN [f EXCEPT !.set = Spare] ELSE f

\* When the forEach ends, the Set object only it held is collected.
Collected(h) == [h EXCEPT ![Spare] = <<>>]

\* The observers registered on a target, in insertion order.
Registered(t) ==
    IF Truthy(observersSlot[t]) THEN heap[observersSlot[t]] ELSE <<>>

\* ------------------------------------------------------- the hidden slots

\* Mutant: the property is defined without configurable and writable, so
\* it cannot be defined again.
setHiddenOnce(slots, target, value) ==
    IF slots[target] = Undefined THEN [slots EXCEPT ![target] = value] ELSE slots

\* Object.defineProperty(target, key, {value, writable, configurable})
setHidden(slots, target, value) == [slots EXCEPT ![target] = value]

\* setFluidGetter(target, get)
setFluidGetter(target, get) == setHidden(getSlot, target, get)

\* Mutant: the constructor does not test the getter it installs.
FluidValueUntested(target, get, method) ==
    [outcome |-> "returned",
     getSlot |-> setFluidGetter(target, IF Truthy(get) THEN get ELSE method)]

\* new FluidValue(get) on a new object whose get method is `method`:
\* if (!get && !(get = this.get)) throw Error('Unknown getter').
FluidValue(target, get, method) ==
    IF ~Truthy(get) /\ ~Truthy(method)
    THEN [outcome |-> "Unknown getter", getSlot |-> getSlot]
    ELSE [outcome |-> "returned",
          getSlot |-> setFluidGetter(target, IF Truthy(get) THEN get ELSE method)]

\* ---------------------------------------------------------------- queries

Returned(v) == [outcome |-> "returned", value |-> v]
Raised == [outcome |-> "raised", value |-> "TypeError"]

\* Reading a property of null or undefined raises a TypeError.
ReadRaises(v) == v \in {Null, Undefined}

\* v[key] for a hidden slot: primitives and objects without the slot give
\* undefined.
Read(v, slots) == IF v \in Targets THEN slots[v] ELSE Undefined

\* Mutant: the getter's first result is kept and given again.
InvokeStale(g) == "a" \o " from " \o g

\* get(): what the installed getter returns now.
Invoke(g) == store \o " from " \o g

\* Boolean(arg && arg[$get])
hasFluidValue(arg) ==
    IF ~Truthy(arg) THEN Returned("false")
    ELSE IF ReadRaises(arg) THEN Raised
    ELSE Returned(IF Truthy(Read(arg, getSlot)) THEN "true" ELSE "false")

\* Mutant: arg && arg[$get] && arg[$get](), which gives the empty slot
\* instead of the argument.
getFluidValueShortCircuit(arg) ==
    IF ~Truthy(arg) THEN Returned(arg)
    ELSE IF ReadRaises(arg) THEN Raised
    ELSE IF Truthy(Read(arg, getSlot)) THEN Returned(Invoke(Read(arg, getSlot)))
    ELSE Returned(Read(arg, getSlot))

\* arg && arg[$get] ? arg[$get]() : arg
getFluidValue(arg) ==
    IF ~Truthy(arg) THEN Returned(arg)
    ELSE IF ReadRaises(arg) THEN Raised
    ELSE IF Truthy(Read(arg, getSlot)) THEN Returned(Invoke(Read(arg, getSlot)))
    ELSE Returned(arg)

\* target[$observers] || null
getFluidObservers(target) ==
    IF ReadRaises(target) THEN Raised
    ELSE IF Truthy(Read(target, observersSlot))
         THEN Returned(Read(target, observersSlot))
         ELSE Returned(Null)

\* if (arg) return arg[$config]
getFluidConfig(arg) ==
    IF Truthy(arg) THEN Returned(Read(arg, configSlot)) ELSE Returned(Undefined)

\* Object.defineProperty(target, $config, { value: config }): the property
\* is neither writable nor configurable, so defining it again with another
\* value raises a TypeError.
setFluidConfig(target, config) ==
    IF configSlot[target] \in {Undefined, config}
    THEN [outcome |-> "returned", slots |-> [configSlot EXCEPT ![target] = config]]
    ELSE [outcome |-> "TypeError", slots |-> configSlot]

\* --------------------------------------------------------------- registry

\* The body of addFluidObserver with its tests as parameters: `guarded` is
\* the test of target[$get], `checked` the test of observers.has(observer),
\* and `early` calls the hook before the insertion.
AddWith(target, observer, guarded, checked, early) ==
    IF guarded => Truthy(getSlot[target])
    THEN LET fresh == ~Truthy(observersSlot[target])
             observers == IF fresh THEN NewSet(target)
                          ELSE observersSlot[target]
             slots == IF fresh THEN setHidden(observersSlot, target, observers)
                      ELSE observersSlot
             entries == IF fresh THEN <<>> ELSE heap[observers]
         IN  IF checked => ~Has(entries, observer)
             THEN [slots |-> slots,
                   heap |-> [heap EXCEPT ![observers] = SetAdd(entries, observer)],
                   hook |-> IF observerAdded(target)
                            THEN [name |-> "observerAdded", this |-> target,
                                  count |-> IF early THEN Len(entries)
                                            ELSE Len(SetAdd(entries, observer)),
                                  observer |-> observer]
                            ELSE NoHook,
                   ret |-> observer]
             ELSE [slots |-> slots,
                   heap |-> [heap EXCEPT ![observers] = entries],
                   hook |-> NoHook,
                   ret |-> observer]
    ELSE [slots |-> observersSlot, heap |-> heap, hook |-> NoHook,
          ret |-> observer]

\* Mutant: no test of target[$get], so any object is observed.
addFluidObserverUnguarded(target, observer) ==
    AddWith(target, observer, FALSE, TRUE, FALSE)

\* Mutant: no test of observers.has(observer), so the hook fires on a
\* duplicate add.
addFluidObserverUnchecked(target, observer) ==
    AddWith(target, observer, TRUE, FALSE, FALSE)

\* Mutant: observerAdded is called with the size before the insertion.
addFluidObserverEarlyHook(target, observer) ==
    AddWith(target, observer, TRUE, TRUE, TRUE)

\* addFluidObserver(target, observer): the slots, heap and hook call it
\* leaves behind, and what it returns.
addFluidObserver(target, observer) ==
    IF Truthy(getSlot[target])
    THEN LET fresh == ~Truthy(observersSlot[target])
             observers == IF fresh THEN NewSet(target)
                          ELSE observersSlot[target]
             slots == IF fresh THEN setHidden(observersSlot, target, observers)
                      ELSE observersSlot
             entries == IF fresh THEN <<>> ELSE heap[observers]
         IN  IF ~Has(entries, observer)
             THEN [slots |-> slots,
                   heap |-> [heap EXCEPT ![observers] = SetAdd(entries, observer)],
                   hook |-> IF observerAdded(target)
                            THEN [name |-> "observerAdded", this |-> target,
                                  count |-> Len(SetAdd(entries, observer)),
                                  observer |-> observer]
                            ELSE NoHook,
                   ret |-> observer]
             ELSE [slots |-> slots,
                   heap |-> [heap EXCEPT ![observers] = entries],
                   hook |-> NoHook,
                   ret |-> observer]
    ELSE [slots |-> observersSlot, heap |-> heap, hook |-> NoHook,
          ret |-> observer]

\* The body of removeFluidObserver with its tests as parameters: `checked`
\* is the test of observers.has(observer), `resets` the branch that resets
\* the slot, and `before` passes the hook the size before the removal.
RemoveWith(target, observer, checked, resets, before) ==
    LET observers == observersSlot[target] IN
    IF Truthy(observers) /\ (checked => Has(heap[observers], observer))
    THEN LET count == Len(heap[observers]) - 1
             retain == count # 0 \/ ~resets IN
         [slots |-> IF retain THEN observersSlot
                    ELSE setHidden(observersSlot, target, Null),
          heap |-> IF retain
                   THEN [heap EXCEPT ![observers] = SetDelete(heap[observers], observer)]
                   ELSE ReleasedHeap(heap, frame, observers),
          frame |-> IF retain
                    THEN CursorAfterDelete(frame, observers, heap[observers], observer)
                    ELSE ReleasedFrame(frame, observers),
          hook |-> IF observerRemoved(target)
                   THEN [name |-> "observerRemoved", this |-> target,
                         count |-> IF before THEN count + 1 ELSE count,
                         observer |-> observer]
                   ELSE NoHook]
    ELSE [slots |-> observersSlot, heap |-> heap, frame |-> frame,
          hook |-> NoHook]

\* Mutant: the last observer is deleted from the Set, which stays in the slot.
removeFluidObserverNoReset(target, observer) ==
    RemoveWith(target, observer, TRUE, FALSE, FALSE)

\* Mutant: no test of observers.has(observer).
removeFluidObserverUnchecked(target, observer) ==
    RemoveWith(target, observer, FALSE, TRUE, FALSE)

\* Mutant: observerRemoved is called with the size before the removal.
removeFluidObserverCountBefore(target, observer) ==
    RemoveWith(target, observer, TRUE, TRUE, TRUE)

\* Mutant: observerRemoved is not called when the slot is reset.
removeFluidObserverQuietReset(target, observer) ==
    LET r == RemoveWith(target, observer, TRUE, TRUE, FALSE) IN
    IF r.slots = observersSlot THEN r ELSE [r EXCEPT !.hook = NoHook]

\* removeFluidObserver(target, observer): the slots, heap, running forEach
\* and hook call it leaves behind.
removeFluidObserver(target, observer) ==
    LET observers == observersSlot[target] IN
    IF Truthy(observers) /\ Has(heap[observers], observer)
    THEN LET count == Len(heap[observers]) - 1 IN
         [slots |-> IF count # 0 THEN observersSlot
                    ELSE setHidden(observersSlot, target, Null),
          heap |-> IF count # 0
                   THEN [heap EXCEPT ![observers] = SetDelete(heap[observers], observer)]
                   ELSE ReleasedHeap(heap, frame, observers),
          frame |-> IF count # 0
                    THEN CursorAfterDelete(frame, observers, heap[observers], observer)
                    ELSE ReleasedFrame(frame, observers),
          hook |-> IF observerRemoved(target)
                   THEN [name |-> "observerRemoved", this |-> target,
                         count |-> count,
                         observer |-> observer]
                   ELSE NoHook]
    ELSE [slots |-> observersSlot, heap |-> heap, frame |-> frame,
          hook |-> NoHook]

\* value(): a function observer runs, with no event; an object with an
\* eventObserved method is not callable.
Call(value) == IF eventObserved(value) THEN "TypeError" ELSE "returned"

\* A call made by the observer that a broadcast is invoking is re-entrant.
Reentered(f, isSelfRemoval) ==
    IF f.pc = "idle" THEN f
    ELSE [f EXCEPT !.nre = f.nre + 1,
                   !.selfOnly = f.selfOnly /\ isSelfRemoval]

\* Callers are the program (no broadcast running) or the observer being
\* invoked.
MayCall == frame.pc = "idle" \/ (frame.pc = "observer" /\ frame.nre < MaxReentrant)

Filter(s, o) == SelectSeq(s, LAMBDA x : x # o)

\* ------------------------------------------------------------- dispatcher

\* Mutant: every observer is called as a function.
callFluidObserverDirect(observer, event) ==
    [observer |-> observer, via |-> "call", event |-> event]

\* callFluidObserver(observer, event): the call it makes.
callFluidObserver(observer, event) ==
    IF eventObserved(observer)
    THEN [observer |-> observer, via |-> "eventObserved", event |-> event]
    ELSE [observer |-> observer, via |-> "call", event |-> event]

\* callFluidObservers(target, event) up to its forEach: the frame it runs in.
callFluidObservers(target, event) ==
    LET observers == observersSlot[target] IN
    IF Truthy(observers)
    THEN [IdleFrame EXCEPT !.pc = "forEach", !.target = target,
                           !.event = event, !.set = observers, !.pos = 1]
    ELSE IdleFrame

\* Mutant: the loop reads target[$observers] again at every step.
IteratedSetLive(f) == observersSlot[f.target]

\* The Set object the running forEach reads its entries from: the one the
\* local `observers` was bound to when the broadcast began.
IteratedSet(f) == f.set

\* Mutant: the forEach callback catches the error and the loop goes on.
observerThrewCaught(f) ==
    [frame |-> [f EXCEPT !.pc = "forEach", !.current = 0], outcome |-> "caught"]

\* An error raised by the observer being invoked leaves the forEach callback
\* and callFluidObservers: nothing catches it.
observerThrew(f) == [frame |-> IdleFrame, outcome |-> "threw"]

\* What a step leaves for its caller to see: a registry call its target and
\* the hook call it made, a query its result, a finished broadcast the
\* calls it made.
Step(act, target, hook) ==
    [act |-> act, target |-> target, hook |-> hook, outcome |-> "none",
     event |-> "none", log |-> <<>>, current |-> 0, nre |-> 0,
     selfOnly |-> TRUE, arg |-> "none", result |-> "none"]

Finished(act, outcome, f) ==
    [Step(act, f.target, NoHook) EXCEPT
        !.outcome = outcome, !.event = f.event, !.log = f.log,
        !.current = f.current, !.nre = f.nre, !.selfOnly = f.selfOnly]

Queried(act, arg, r) ==
    [Step(act, "none", NoHook) EXCEPT
        !.outcome = r.outcome, !.arg = arg, !.result = r.value]

\* The hook calls made so far, counted on the object they were called on.
HookCounted(net, hook) ==
    IF hook.name = "observerAdded" THEN [net EXCEPT ![hook.this] = @ + 1]
    ELSE IF hook.name = "observerRemoved" THEN [net EXCEPT ![hook.this] = @ - 1]
    ELSE net

\* ---------------------------------------------------------------- actions

Init ==
    /\ getSlot = [t \in Targets |-> Undefined]
    /\ observersSlot = [t \in Targets |-> Undefined]
    /\ heap = [id \in SetIds |-> <<>>]
    /\ frame = IdleFrame
    /\ last = Step("none", "none", NoHook)
    /\ subscribed = [t \in Targets |-> <<>>]
    /\ hookNet = [t \in Targets |-> 0]
    /\ store = "a"
    /\ configSlot = [t \in Targets |-> Undefined]

SetFluidGetter(t, g) ==
    /\ frame.pc = "idle"
    /\ getSlot' = setFluidGetter(t, g)
    /\ last' = [Step("setFluidGetter", t, NoHook) EXCEPT
                    !.arg = g, !.result = getSlot[t]]
    /\ UNCHANGED <<observersSlot, heap, frame, subscribed, hookNet, store, configSlot>>

AddFluidObserver(t, o) ==
    /\ MayCall
    /\ LET r == addFluidObserver(t, o) IN
       /\ observersSlot' = r.slots
       /\ heap' = r.heap
       /\ frame' = Reentered(frame, FALSE)
       /\ last' = Step("addFluidObserver", t, r.hook)
       /\ hookNet' = HookCounted(hookNet, r.hook)
    /\ subscribed' = IF Truthy(getSlot[t]) /\ ~Has(subscribed[t], o)
                     THEN [subscribed EXCEPT ![t] = Append(@, o)]
                     ELSE subscribed
    /\ UNCHANGED <<getSlot, store, configSlot>>

RemoveFluidObserver(t, o) ==
    /\ MayCall
    /\ LET r == removeFluidObserver(t, o) IN
       /\ observersSlot' = r.slots
       /\ heap' = r.heap
       /\ frame' = Reentered(r.frame, t = frame.target /\ o = frame.current)
       /\ last' = Step("removeFluidObserver", t, r.hook)
       /\ hookNet' = HookCounted(hookNet, r.hook)
    /\ subscribed' = [subscribed EXCEPT ![t] = Filter(@, o)]
    /\ UNCHANGED <<getSlot, store, configSlot>>

\* callFluidObservers(target, event) is called by the program.
CallFluidObservers(t, e) ==
    /\ frame.pc = "idle"
    /\ frame' = callFluidObservers(t, e)
    /\ last' = IF frame'.pc = "idle"
               THEN Finished("callFluidObservers", "returned",
                             [IdleFrame EXCEPT !.target = t, !.event = e])
               ELSE [Step("callFluidObservers", t, NoHook) EXCEPT
                        !.outcome = "running"]
    /\ UNCHANGED <<getSlot, observersSlot, heap, subscribed, hookNet, store, configSlot>>

\* forEach reaches its next entry and invokes the observer.
ForEachNext ==
    /\ frame.pc = "forEach"
    /\ Truthy(IteratedSet(frame))
    /\ frame.pos <= Len(heap[IteratedSet(frame)])
    /\ LET observer == heap[IteratedSet(frame)][frame.pos] IN
       /\ frame' = [frame EXCEPT !.pc = "observer", !.pos = frame.pos + 1,
                                 !.current = observer,
                                 !.log = Append(frame.log,
                                           callFluidObserver(observer, frame.event))]
       /\ last' = Step("callFluidObserver", frame.target, NoHook)
    /\ UNCHANGED <<getSlot, observersSlot, heap, subscribed, hookNet, store, configSlot>>

\* forEach has no entry left, and callFluidObservers returns; reading the
\* entries of what is not a Set object raises a TypeError.
ForEachEnd ==
    /\ frame.pc = "forEach"
    /\ Truthy(IteratedSet(frame)) => frame.pos > Len(heap[IteratedSet(frame)])
    /\ frame' = IdleFrame
    /\ last' = Finished("forEachEnd",
                        IF Truthy(IteratedSet(frame)) THEN "returned" ELSE "TypeError",
                        frame)
    /\ heap' = Collected(heap)
    /\ UNCHANGED <<getSlot, observersSlot, subscribed, hookNet, store, configSlot>>

\* The observer being invoked returns.
ObserverReturns ==
    /\ frame.pc = "observer"
    /\ frame' = [frame EXCEPT !.pc = "forEach", !.current = 0]
    /\ last' = Step("observerReturned", frame.target, NoHook)
    /\ UNCHANGED <<getSlot, observersSlot, heap, subscribed, hookNet, store, configSlot>>

\* The observer being invoked raises an error.
ObserverThrows ==
    /\ frame.pc = "observer"
    /\ LET r == observerThrew(frame) IN
       /\ frame' = r.frame
       /\ last' = Finished("observerThrew", r.outcome, frame)
       /\ heap' = IF r.frame.pc = "idle" THEN Collected(heap) ELSE heap
    /\ UNCHANGED <<getSlot, observersSlot, subscribed, hookNet, store, configSlot>>

\* The program calls one of the three queries on any value.
HasFluidValue(v) ==
    /\ frame.pc = "idle"
    /\ last' = Queried("hasFluidValue", v, hasFluidValue(v))
    /\ UNCHANGED <<getSlot, observersSlot, heap, frame, subscribed, hookNet, store, configSlot>>

GetFluidValue(v) ==
    /\ frame.pc = "idle"
    /\ last' = Queried("getFluidValue", v, getFluidValue(v))
    /\ UNCHANGED <<getSlot, observersSlot, heap, frame, subscribed, hookNet, store, configSlot>>

GetFluidObservers(v) ==
    /\ frame.pc = "idle"
    /\ last' = Queried("getFluidObservers", v, getFluidObservers(v))
    /\ UNCHANGED <<getSlot, observersSlot, heap, frame, subscribed, hookNet, store, configSlot>>

\* new FluidValue(get) constructs an object that is not fluid yet.
NewFluidValue(t, get, method) ==
    /\ frame.pc = "idle"
    /\ getSlot[t] = Undefined
    /\ observersSlot[t] = Undefined
    /\ LET r == FluidValue(t, get, method) IN
       /\ getSlot' = r.getSlot
       /\ last' = [Step("FluidValue", t, NoHook) EXCEPT
                      !.outcome = r.outcome, !.arg = get, !.result = method]
    /\ UNCHANGED <<observersSlot, heap, frame, subscribed, hookNet, store,
                   configSlot>>

\* The value behind the getters changes.
SetValue(v) ==
    /\ frame.pc = "idle"
    /\ v # store
    /\ store' = v
    /\ last' = Step("setValue", "none", NoHook)
    /\ UNCHANGED <<getSlot, observersSlot, heap, frame, subscribed, hookNet,
                   configSlot>>

\* const stop = addFluidObserver(t, o); stop(): the program calls what
\* addFluidObserver returned, and sees whether it is the observer.
CallReturned(t, o) ==
    /\ frame.pc = "idle"
    /\ LET r == addFluidObserver(t, o) IN
       /\ observersSlot' = r.slots
       /\ heap' = r.heap
       /\ last' = [Step("stop", t, r.hook) EXCEPT
                      !.outcome = Call(r.ret), !.current = o,
                      !.result = IF r.ret = o THEN "observer" ELSE "other"]
       /\ hookNet' = HookCounted(hookNet, r.hook)
    /\ subscribed' = IF Truthy(getSlot[t]) /\ ~Has(subscribed[t], o)
                     THEN [subscribed EXCEPT ![t] = Append(@, o)]
                     ELSE subscribed
    /\ UNCHANGED <<getSlot, frame, store, configSlot>>

\* setFluidConfig(target, config) is called by the program.
SetFluidConfig(t, c) ==
    /\ LET r == setFluidConfig(t, c) IN
       /\ configSlot' = r.slots
       /\ last' = [Step("setFluidConfig", t, NoHook) EXCEPT
                      !.outcome = r.outcome, !.arg = c]
    /\ UNCHANGED <<getSlot, observersSlot, heap, frame, subscribed, hookNet,
                   store>>

\* The constructor of the FluidConfig revision: setFluidConfig(this, this)
\* on the new object.
NewConfigured(t) ==
    /\ configSlot[t] = Undefined
    /\ LET r == setFluidConfig(t, t) IN
       /\ configSlot' = r.slots
       /\ last' = [Step("FluidValue", t, NoHook) EXCEPT
                      !.outcome = r.outcome, !.arg = t]
    /\ UNCHANGED <<getSlot, observersSlot, heap, frame, subscribed, hookNet,
                   store>>

GetFluidConfig(v) ==
    /\ last' = Queried("getFluidConfig", v, getFluidConfig(v))
    /\ UNCHANGED <<getSlot, observersSlot, heap, frame, subscribed, hookNet,
                   store, configSlot>>

Next ==
    \/ \E t \in Targets, g \in Getters : SetFluidGetter(t, g)
    \/ \E t \in Targets, o \in Observers : AddFluidObserver(t, o)
    \/ \E t \in Targets, o \in Observers : RemoveFluidObserver(t, o)
    \/ \E t \in Targets, e \in Events : CallFluidObservers(t, e)
    \/ ForEachNext
    \/ ForEachEnd
    \/ ObserverReturns
    \/ ObserverThrows
    \/ \E v \in Values : HasFluidValue(v)
    \/ \E v \in Values : GetFluidValue(v)
    \/ \E v \in Values : GetFluidObservers(v)

Spec == Init /\ [][Next]_vars

\* The getters and the values behind them, without broadcasts.
NextValues ==
    \/ \E t \in Targets, g \in NewerGetters : SetFluidGetter(t, g)
    \/ \E t \in Targets, g \in NewerGetters \cup {Undefined},
          m \in {GetMethod, Undefined} : NewFluidValue(t, g, m)
    \/ \E v \in StoreValues : SetValue(v)
    \/ \E t \in Targets, o \in Observers : AddFluidObserver(t, o)
    \/ \E t \in Targets, o \in Observers : RemoveFluidObserver(t, o)
    \/ \E v \in Values : HasFluidValue(v)
    \/ \E v \in Values : GetFluidValue(v)
    \/ \E t \in Targets, o \in Observers : CallReturned(t, o)

SpecValues == Init /\ [][NextValues]_vars

\* The FluidConfig revision: the config slot and its two functions.
NextConfig ==
    \/ \E t \in Targets, c \in Configs : SetFluidConfig(t, c)
    \/ \E t \in Targets : NewConfigured(t)
    \/ \E v \in Values : GetFluidConfig(v)

SpecConfig == Init /\ [][NextConfig]_vars

\* ----------------------------------------------------------------- claims

Observed(log) == [i \in 1..Len(log) |-> log[i].observer]

NoDuplicates(s) == \A i, j \in 1..Len(s) : s[i] = s[j] => i = j

\* C1: the observer slot is never an empty-but-present set: for every
\* target, getFluidObservers returns null or a Set with at least one member,
\* and it returns null whenever every observer added has been removed again.
C1_NeverEmptyButPresent ==
    \A t \in Targets :
        LET r == getFluidObservers(t) IN
        /\ r.outcome = "returned"
        /\ r.value = Null \/ (r.value \in SetIds /\ Len(heap[r.value]) >= 1)
        /\ subscribed[t] = <<>> => r.value = Null

\* C1 witness: the last observer of a target has just been removed, and the
\* slot was reset.
C1_Witness ==
    /\ last.act = "removeFluidObserver"
    /\ observersSlot[last.target] = Null
    /\ subscribed[last.target] = <<>>

\* C2: a broadcast during which no observer called add or remove invokes
\* exactly the observers added and not removed since, once each, in insertion
\* order, each with the event of the broadcast, and returns normally; with no
\* observer registered it invokes nobody and returns.
C2_BroadcastFanOut ==
    (last.act \in {"callFluidObservers", "forEachEnd"}
        /\ last.outcome # "running" /\ last.nre = 0)
    => /\ last.outcome = "returned"
       /\ Observed(last.log) = subscribed[last.target]
       /\ \A i \in 1..Len(last.log) : last.log[i].event = last.event

\* C2 witness: a broadcast to several observers has returned.
C2_Witness ==
    /\ last.act = "forEachEnd"
    /\ last.outcome = "returned"
    /\ last.nre = 0
    /\ Len(last.log) >= 2

\* C3: addFluidObserver with an observer that is already subscribed leaves
\* the observer set as it was and calls no hook.
C3_IdempotentSubscribe ==
    [][\A t \in Targets, o \in Observers :
          (/\ last'.act = "addFluidObserver" /\ last'.target = t
           /\ Has(subscribed[t], o)
           /\ AddFluidObserver(t, o))
          => /\ UNCHANGED <<getSlot, observersSlot, heap>>
             /\ Registered(t)' = Registered(t)
             /\ last'.hook = NoHook]_vars

\* C3 witness: an add on the fluid target with hooks called no hook, so it
\* was a duplicate, and the set has one member.
C3_Witness ==
    /\ last.act = "addFluidObserver"
    /\ last.target = "hooked"
    /\ Truthy(getSlot["hooked"])
    /\ last.hook = NoHook
    /\ Len(Registered("hooked")) = 1

\* C4: removeFluidObserver with an observer that is not subscribed (never
\* added, already removed, or no observer set) changes no state and calls no
\* hook.
C4_IdempotentUnsubscribe ==
    [][\A t \in Targets, o \in Observers :
          (/\ last'.act = "removeFluidObserver" /\ last'.target = t
           /\ ~Has(subscribed[t], o)
           /\ RemoveFluidObserver(t, o))
          => /\ UNCHANGED <<getSlot, observersSlot, heap, subscribed>>
             /\ frame'.pos = frame.pos /\ frame'.set = frame.set
             /\ last'.hook = NoHook]_vars

\* C4 witness: a remove on the target with hooks called no hook, so nothing
\* was removed, while other observers stay registered.
C4_Witness ==
    /\ last.act = "removeFluidObserver"
    /\ last.target = "hooked"
    /\ last.hook = NoHook
    /\ Len(Registered("hooked")) >= 1

C6_RemovedHookCount ==
    [][\A t \in Targets, o \in Observers :
          (/\ last'.act = "removeFluidObserver" /\ last'.target = t
           /\ Has(subscribed[t], o) /\ observerRemoved(t)
           /\ RemoveFluidObserver(t, o))
          => /\ last'.hook = [name |-> "observerRemoved", this |-> t,
                              count |-> Len(subscribed'[t]), observer |-> o]
             /\ last'.hook.count = Len(Registered(t)')]_vars

\* C6 witness: the hook was called in the branch that keeps the set.
C6_Witness ==
    /\ last.act = "removeFluidObserver"
    /\ last.hook.name = "observerRemoved"
    /\ last.hook.count >= 1

\* C7: an insertion on a target with an observerAdded hook calls the hook
\* with the observer added and the number of observers after the insertion.
C7_AddedHookCount ==
    [][\A t \in Targets, o \in Observers :
          (/\ last'.act = "addFluidObserver" /\ last'.target = t
           /\ Truthy(getSlot[t]) /\ ~Has(subscribed[t], o) /\ observerAdded(t)
           /\ AddFluidObserver(t, o))
          => /\ last'.hook = [name |-> "observerAdded", this |-> t,
                              count |-> Len(subscribed'[t]), observer |-> o]
             /\ last'.hook.count = Len(Registered(t)')
             /\ (subscribed[t] = <<>> => last'.hook.count = 1)]_vars

\* C7 witness: the hook was called for a first subscription after the set
\* had been reset, while a broadcast still held the old set.
C7_Witness ==
    /\ last.act = "addFluidObserver"
    /\ last.hook.name = "observerAdded"
    /\ last.hook.count = 1
    /\ frame.pc = "observer"
    /\ frame.set = Spare

\* C8: an error raised by an observer ends the broadcast with that error: no
\* later observer is invoked in it, and the observer sets are as they were.
C8_ObserverErrorPropagates ==
    [][(last'.act = "observerThrew" /\ ObserverThrows)
          => /\ frame'.pc = "idle"
             /\ last'.outcome = "threw"
             /\ last'.log = frame.log
             /\ last'.log[Len(last'.log)].observer = frame.current
             /\ UNCHANGED <<getSlot, observersSlot, subscribed>>
             /\ \A t \in Targets : Registered(t)' = Registered(t)]_vars

\* C8 witness: an observer raised while observers after it were still to
\* be invoked.
C8_Witness ==
    /\ last.act = "observerThrew"
    /\ last.nre = 0
    /\ Len(last.log) < Len(Registered(last.target))

\* C9: a broadcast during which the only re-entrant calls are observers
\* removing themselves invokes no observer twice and returns without error.
C9_SelfRemovalDuringBroadcast ==
    /\ (frame.pc # "idle" /\ frame.selfOnly) => NoDuplicates(Observed(frame.log))
    /\ (last.act = "forEachEnd" /\ last.selfOnly /\ last.nre > 0)
       => /\ last.outcome = "returned"
          /\ NoDuplicates(Observed(last.log))

\* C9 witness: a broadcast returned after its last registered observer
\* removed itself.
C9_Witness ==
    /\ last.act = "forEachEnd"
    /\ last.outcome = "returned"
    /\ last.selfOnly
    /\ last.nre > 0
    /\ observersSlot[last.target] = Null

\* C10: hasFluidValue, getFluidValue and getFluidObservers return for every
\* input and never raise.
C10_QueriesAreTotal ==
    last.act \in {"hasFluidValue", "getFluidValue", "getFluidObservers"}
    => last.outcome = "returned"

\* A fluid object: a value that carries a getter in its $get slot.
IsFluid(v) == v \in Targets /\ getSlot[v] \notin {Undefined, Null}

\* C11: for every input that is not fluid, getFluidValue returns the input
\* itself and hasFluidValue is false; hasFluidValue is true exactly for a
\* non-null value that carries a truthy getter slot.
C11_PassThrough ==
    /\ (last.act = "getFluidValue" /\ ~IsFluid(last.arg))
       => (last.outcome = "returned" /\ last.result = last.arg)
    /\ last.act = "hasFluidValue"
       => /\ last.outcome = "returned"
          /\ last.result = (IF IsFluid(last.arg) THEN "true" ELSE "false")

\* C11 witness: getFluidValue was called on an object without a getter and
\* returned that object.
C11_Witness ==
    /\ last.act = "getFluidValue"
    /\ last.arg = "plain"
    /\ getSlot["plain"] = Undefined
    /\ last.result = "plain"

\* C12: every getFluidValue on a fluid object calls its getter and returns
\* what the getter finds at that moment, also after the value has changed.
C12_GetterReinvoked ==
    (last.act = "getFluidValue" /\ IsFluid(last.arg))
    => /\ last.outcome = "returned"
       /\ last.result = store \o " from " \o getSlot[last.arg]

\* C12 witness: getFluidValue returned the value set after the getter was
\* installed.
C12_Witness ==
    /\ last.act = "getFluidValue"
    /\ IsFluid(last.arg)
    /\ store = "b"
    /\ last.result = "b from g1"

\* C13: new FluidValue() with neither a getter argument nor a get method
\* raises 'Unknown getter' at once and leaves the object not fluid; with
\* either of them it returns and the object is fluid.
C13_UnknownGetter ==
    last.act = "FluidValue"
    => IF last.arg = Undefined /\ last.result = Undefined
       THEN /\ last.outcome = "Unknown getter"
            /\ ~IsFluid(last.target)
            /\ hasFluidValue(last.target) = Returned("false")
       ELSE /\ last.outcome = "returned"
            /\ hasFluidValue(last.target) = Returned("true")
            /\ getSlot[last.target] =
                   (IF last.arg # Undefined THEN last.arg ELSE last.result)

\* C13 witness: a construction without getter and without get method raised.
C13_Witness ==
    /\ last.act = "FluidValue"
    /\ last.arg = Undefined
    /\ last.result = Undefined
    /\ last.outcome = "Unknown getter"

\* C14: a broadcast reaches each observer in its own way: an observer with
\* an eventObserved method through that method, a function by a direct call,
\* both with the event of the broadcast, also when one set holds both kinds.
C14_DualConvention ==
    \A i \in 1..Len(frame.log) :
        /\ frame.log[i].via =
               (IF frame.log[i].observer % 2 = 0 THEN "eventObserved" ELSE "call")
        /\ frame.log[i].event = frame.event

\* C14 witness: a broadcast has invoked a function and an object with
\* eventObserved from the same set.
C14_Witness ==
    /\ frame.pc = "forEach"
    /\ \E i, j \in 1..Len(frame.log) :
          /\ frame.log[i].via = "call"
          /\ frame.log[j].via = "eventObserved"

\* C17: an observer that a broadcast invokes is registered on the target at
\* that moment: one that an earlier handler of the same broadcast has
\* unregistered is not invoked, also when that removal reset the slot.
C17_RemovedNotInvoked ==
    last.act = "callFluidObserver"
    => Has(Registered(frame.target), frame.current)

\* C18: on a target with both hooks, the observerAdded calls made so far
\* minus the observerRemoved calls made so far is the number of observers
\* registered.
C18_HookBalance ==
    \A t \in Targets :
        hookNet[t] = (IF observerAdded(t) /\ observerRemoved(t)
                      THEN Len(Registered(t)) ELSE 0)

\* C18 witness: both hooks have been called on a target, and an observer is
\* registered after the removal that reset the set.
C18_Witness ==
    /\ last.act = "addFluidObserver"
    /\ last.hook.name = "observerAdded"
    /\ last.hook.count = 1
    /\ hookNet[last.target] = 1
    /\ frame.set = Spare

C20_GetterReplaced ==
    [][\A t \in Targets, g \in NewerGetters :
          (/\ last'.act = "setFluidGetter" /\ last'.target = t
           /\ Truthy(getSlot[t])
           /\ SetFluidGetter(t, g))
          => /\ getSlot'[t] = g
             /\ getFluidValue(t)' = Returned(store \o " from " \o g)
             /\ UNCHANGED <<observersSlot, heap, subscribed>>
             /\ Registered(t)' = Registered(t)]_vars

\* C20 witness: a getter has replaced another one on a target that has
\* observers.
C20_Witness ==
    /\ last.act = "setFluidGetter"
    /\ last.arg = "g2"
    /\ last.result = "g1"
    /\ getSlot[last.target] = "g2"
    /\ Len(Registered(last.target)) = 2

\* C15: what addFluidObserver returns is a function that unsubscribes the
\* observer when it is called, and for a target that is not fluid it is not
\* the observer but undefined.
C15_ReturnsUnsubscribe ==
    last.act = "stop"
    => IF Truthy(getSlot[last.target])
       THEN /\ last.outcome = "returned"
            /\ ~Has(Registered(last.target), last.current)
       ELSE last.result # "observer"

\* C16: every setFluidConfig returns, and getFluidConfig gives the config of
\* the newest call afterwards.
C16_NewerConfigOverrides ==
    last.act = "setFluidConfig"
    => /\ last.outcome = "returned"
       /\ getFluidConfig(last.target) = Returned(last.arg)

====
